---- MODULE Spec2Model ----
(***************************************************************************)
(* naritai: the DAG container of src/naritai/dag.py, with the sorter of    *)
(* Python's graphlib that DAG.static_order hands the graph to.             *)
(*                                                                         *)
(* A graph is the dict DAG._graph: `order` is the dict's key order (first  *)
(* insertion order, a deleted and re-added key goes to the end) and `succ` *)
(* maps every key to its set of successors.  The vertices are small        *)
(* positive ints.  The code iterates sets, and the order in which a set    *)
(* delivers its elements is CPython's: an int hashes to itself and sits in *)
(* the slot of its value, so a set that has only ever gained elements, and *)
(* every fresh copy of a set, iterates in ascending order.  A set that has *)
(* lost an element keeps a used slot in its table and later arrivals may   *)
(* land elsewhere (add 2, add 3, remove 2, remove 3, add 2, add 3 iterates *)
(* 3, 2): `worn` holds the keys whose set has lost an element, and such a  *)
(* set is iterated in any order.                                           *)
(***************************************************************************)
EXTENDS Integers, Sequences, FiniteSets, TLC

\* Bounds of the model.
NumVertices == 3
MaxEdges == 3
MaxVisit == 4
MaxInit == 2

Vertices == 1..NumVertices

----------------------------------------------------------------------------
\* Helpers.

Range(s) == {s[i] : i \in DOMAIN s}

\* All the orders in which iterating the set S can deliver its elements.
Perms(S) == {p \in [1..Cardinality(S) -> S] : Range(p) = S}

IndexOf(s, x) == CHOOSE i \in DOMAIN s : s[i] = x

RemoveAt(s, i) == [j \in 1..(Len(s) - 1) |-> IF j < i THEN s[j] ELSE s[j + 1]]

\* The elements of a set of ints from the least to the greatest.
RECURSIVE Ascending(_)
Ascending(S) ==
    IF S = {} THEN <<>>
    ELSE LET m == CHOOSE x \in S : \A y \in S : x <= y
         IN  <<m>> \o Ascending(S \ {m})

\* `del d[k]` on a dict: the key leaves the key order and the mapping, and
\* its set goes with it.
DictDel(g, k) ==
    [order |-> RemoveAt(g.order, IndexOf(g.order, k)),
     succ  |-> [x \in (DOMAIN g.succ) \ {k} |-> g.succ[x]],
     worn  |-> g.worn \ {k}]

----------------------------------------------------------------------------
\* The DAG class.

\* DAG.__init__ with no initial vertexes: self._graph = {}
EmptyGraph == [order |-> <<>>, succ |-> <<>>, worn |-> {}]

Keys(g) == DOMAIN g.succ

\* The orders in which iterating the set self._graph[key] can deliver it.
IterOrders(g, key) ==
    IF key \in g.worn THEN Perms(g.succ[key]) ELSE {Ascending(g.succ[key])}

\* DAG.__contains__
Contains(g, vertex) == vertex \in Keys(g)

\* DAG.__len__
GraphLen(g) == Len(g.order)

NumEdges(g) == Cardinality({e \in Keys(g) \X Vertices : e[2] \in g.succ[e[1]]})

\* add_vertex without its test: a present vertex gets a fresh, empty set.
add_vertex_Reset(g, vertex) ==
    IF vertex \notin DOMAIN g.succ
    THEN [order |-> Append(g.order, vertex), succ |-> g.succ @@ (vertex :> {}),
          worn |-> g.worn]
    ELSE [g EXCEPT !.succ[vertex] = {}]

\* DAG.add_vertex
add_vertex(g, vertex) ==
    IF vertex \notin Keys(g)
    THEN [order |-> Append(g.order, vertex), succ |-> g.succ @@ (vertex :> {}),
          worn |-> g.worn]
    ELSE g

\* add_edge that creates u but not v.
add_edge_NoCreate(g, u, v) ==
    LET g1 == IF u \notin DOMAIN g.succ THEN add_vertex(g, u) ELSE g
    IN  [g1 EXCEPT !.succ[u] = @ \cup {v}]

\* DAG.add_edge
add_edge(g, u, v) ==
    LET g1 == IF u \notin Keys(g) THEN add_vertex(g, u) ELSE g
        g2 == IF v \notin Keys(g1) THEN add_vertex(g1, v) ELSE g1
    IN  [g2 EXCEPT !.succ[u] = @ \cup {v}]

\* DAG.__init__: the edge specifications are applied in sequence order.  A
\* specification is a sequence of length 1 (a vertex) or 2 (an edge).
RECURSIVE InitFrom(_, _)
InitFrom(g, initial_vertexes) ==
    IF initial_vertexes = <<>> THEN g
    ELSE LET edge == Head(initial_vertexes)
             g1 == IF Len(edge) = 1 THEN add_vertex(g, edge[1])
                   ELSE add_edge(g, edge[1], edge[2])
         IN  InitFrom(g1, Tail(initial_vertexes))

NewDAG(initial_vertexes) == InitFrom(EmptyGraph, initial_vertexes)

\* The first loop of DAG.__delitem__: key leaves every successor set.
RemoveIncoming(g, key) ==
    [g EXCEPT !.succ = [x \in Keys(g) |-> g.succ[x] \ {key}],
              !.worn = @ \cup {x \in Keys(g) : key \in g.succ[x]}]

RECURSIVE DelItem(_, _), DelNodes(_, _)

\* DAG.__delitem__: the graph `del self[key]` leaves and whether it ended by
\* raising KeyError.  self[key] raises for an absent key; to_delete is a
\* fresh copy; the recursive deletes run one after the other on the same
\* dict, and the first KeyError ends the whole call with the dict as it is
\* at that moment; the closing `del self._graph[key]` raises when a
\* recursive delete has already taken key out.
DelItem(g, key) ==
    IF key \notin Keys(g)
    THEN [g |-> g, raised |-> TRUE]
    ELSE LET to_delete == Ascending(g.succ[key])
             r == DelNodes(RemoveIncoming(g, key), to_delete)
         IN  IF r.raised THEN r
             ELSE IF key \notin Keys(r.g)
                  THEN [g |-> r.g, raised |-> TRUE]
                  ELSE [g |-> DictDel(r.g, key), raised |-> FALSE]

\* The loop `for node in to_delete: del self[node]`.
DelNodes(g, to_delete) ==
    IF to_delete = <<>>
    THEN [g |-> g, raised |-> FALSE]
    ELSE LET r == DelItem(g, Head(to_delete))
         IN  IF r.raised THEN r ELSE DelNodes(r.g, Tail(to_delete))

----------------------------------------------------------------------------
\* graphlib.TopologicalSorter, as DAG.static_order uses it.  The DAG is handed
\* over as the mapping node -> predecessors, so graphlib's predecessors of a
\* node are the DAG's successors of it.

AppendNew(s, x) == IF x \in Range(s) THEN s ELSE Append(s, x)

RECURSIVE AppendAllNew(_, _)
AppendAllNew(s, p) ==
    IF p = <<>> THEN s ELSE AppendAllNew(AppendNew(s, Head(p)), Tail(p))

\* TopologicalSorter.__init__: the key orders the dict _node2info can get.
\* add(node, *predecessors) registers node, then each predecessor in the
\* iteration order of the DAG's successor set.
RECURSIVE Node2Info(_, _, _)
Node2Info(g, i, acc) ==
    IF i > Len(g.order) THEN {acc}
    ELSE LET node == g.order[i]
         IN  UNION {Node2Info(g, i + 1, AppendAllNew(AppendNew(acc, node), p))
                    : p \in IterOrders(g, node)}

\* _NodeInfo.npredecessors after __init__.
NPredecessors(g, node) ==
    IF node \in Keys(g) THEN Cardinality(g.succ[node]) ELSE 0

\* _NodeInfo.successors after __init__: node is appended to the list of each
\* of its predecessors while the DAG's items are walked in key order.
GSuccessors(g, pred) ==
    SelectSeq(g.order, LAMBDA node : pred \in g.succ[node])

_NODE_OUT == -1
_NODE_DONE == -2

\* TopologicalSorter._find_cycle: the depth-first search over the successor
\* lists.  stack is the current path, its[k] the position of the iterator of
\* stack[k]; the result is the cycle found, <<>> for None.
RECURSIVE FindCycleVisit(_, _, _, _, _), FindCycleBacktrack(_, _, _, _)
FindCycleVisit(g, node, stack, its, seen) ==
    IF node \in seen
    THEN IF node \in Range(stack)
         THEN [cycle |-> SubSeq(stack, IndexOf(stack, node), Len(stack)) \o <<node>>,
               seen |-> seen]
         ELSE FindCycleBacktrack(g, stack, its, seen)
    ELSE FindCycleBacktrack(g, Append(stack, node), Append(its, 1), seen \cup {node})

FindCycleBacktrack(g, stack, its, seen) ==
    IF stack = <<>>
    THEN [cycle |-> <<>>, seen |-> seen]
    ELSE LET n == Len(stack)
             successors == GSuccessors(g, stack[n])
         IN  IF its[n] <= Len(successors)
             THEN FindCycleVisit(g, successors[its[n]], stack,
                                 [its EXCEPT ![n] = @ + 1], seen)
             ELSE FindCycleBacktrack(g, SubSeq(stack, 1, n - 1),
                                     SubSeq(its, 1, n - 1), seen)

RECURSIVE FindCycleFrom(_, _, _, _)
FindCycleFrom(g, n2i, i, seen) ==
    IF i > Len(n2i) THEN <<>>
    ELSE IF n2i[i] \in seen THEN FindCycleFrom(g, n2i, i + 1, seen)
    ELSE LET r == FindCycleVisit(g, n2i[i], <<>>, <<>>, seen)
         IN  IF r.cycle # <<>> THEN r.cycle
             ELSE FindCycleFrom(g, n2i, i + 1, r.seen)

_find_cycle(g, n2i) == FindCycleFrom(g, n2i, 1, {})

\* TopologicalSorter.done for one node: the inner loop over its successors.
RECURSIVE DoneSuccessors(_, _)
DoneSuccessors(st, successors) ==
    IF successors = <<>> THEN st
    ELSE LET s == Head(successors)
             np == [st.np EXCEPT ![s] = @ - 1]
         IN  DoneSuccessors([np |-> np,
                             ready |-> IF np[s] = 0 THEN Append(st.ready, s)
                                       ELSE st.ready],
                            Tail(successors))

\* TopologicalSorter.done(*nodes)
RECURSIVE Done(_, _, _)
Done(g, st, nodes) ==
    IF nodes = <<>> THEN st
    ELSE Done(g,
              DoneSuccessors([st EXCEPT !.np[Head(nodes)] = _NODE_DONE],
                             GSuccessors(g, Head(nodes))),
              Tail(nodes))

\* The loop of TopologicalSorter.static_order: get_ready, yield, done.
RECURSIVE StaticOrderLoop(_, _, _, _, _)
StaticOrderLoop(g, st, npassedout, nfinished, yielded) ==
    IF nfinished < npassedout \/ st.ready # <<>>
    THEN LET node_group == st.ready
             out == [np |-> [n \in DOMAIN st.np |->
                                IF n \in Range(node_group) THEN _NODE_OUT
                                ELSE st.np[n]],
                     ready |-> <<>>]
         IN  StaticOrderLoop(g, Done(g, out, node_group),
                             npassedout + Len(node_group),
                             nfinished + Len(node_group),
                             yielded \o node_group)
    ELSE yielded

\* TopologicalSorter(graph).static_order(), consumed to its end, for one key
\* order of _node2info: what was yielded and whether CycleError was raised.
\* prepare() runs first, so a cycle raises before anything is yielded.
StaticOrderOf(g, n2i) ==
    LET np0 == [n \in Range(n2i) |-> NPredecessors(g, n)]
        ready0 == SelectSeq(n2i, LAMBDA n : np0[n] = 0)
        cycle == _find_cycle(g, n2i)
    IN  IF cycle # <<>>
        THEN [order |-> <<>>, raised |-> TRUE]
        ELSE [order |-> StaticOrderLoop(g, [np |-> np0, ready |-> ready0], 0, 0, <<>>),
              raised |-> FALSE]

\* static_order with the CycleError caught: what was yielded so far is the
\* answer.
static_order_Swallowed(g) ==
    {[order |-> StaticOrderOf(g, n2i).order, raised |-> FALSE]
        : n2i \in Node2Info(g, 1, <<>>)}

\* DAG.static_order
static_order(g) == {StaticOrderOf(g, n2i) : n2i \in Node2Info(g, 1, <<>>)}

----------------------------------------------------------------------------
\* DAG.__str__

RECURSIVE JoinReprs(_)
JoinReprs(p) ==
    IF p = <<>> THEN ""
    ELSE IF Len(p) = 1 THEN ToString(p[1])
    ELSE ToString(p[1]) \o ", " \o JoinReprs(Tail(p))

\* One line of the description, the successor set iterated as p.
StrLine(node, p) == ToString(node) \o " -> [" \o JoinReprs(p) \o "]\n"

\* __str__ walking the keys from the last inserted to the first.
RECURSIVE StrFrom_Reversed(_, _)
StrFrom_Reversed(g, i) ==
    IF i > Len(g.order) THEN {""}
    ELSE LET node == g.order[Len(g.order) + 1 - i]
         IN  {StrLine(node, p) \o rest :
                 p \in IterOrders(g, node), rest \in StrFrom_Reversed(g, i + 1)}

\* The strings DAG.__str__ can return: the keys in dict order.
RECURSIVE StrFrom(_, _)
StrFrom(g, i) ==
    IF i > Len(g.order) THEN {""}
    ELSE {StrLine(g.order[i], p) \o rest :
             p \in IterOrders(g, g.order[i]), rest \in StrFrom(g, i + 1)}

Str(g) == StrFrom(g, 1)

----------------------------------------------------------------------------
\* State.

\* graph is the DAG's _graph.  pc says where a call of DAG.subgraph is: at
\* the test of its while loop, or in the loop's body after the pop, with
\* next_node in hand.  vertices_to_visit is that call's worklist and edges
\* its edge list, kept as the graph DAG(edges) builds from it (DAG.__init__
\* applies the list in order, so the graph of a list extended at its end is
\* the graph of the list, extended).  result is what the last call delivered, with the
\* graph it started from.  inserted records, for every key, its successors in
\* the order in which they joined its set; the code keeps no such order, the
\* record only serves to state what the rendering is compared with.
VARIABLES graph, pc, vertices_to_visit, next_node, edges, result, inserted

vars == <<graph, pc, vertices_to_visit, next_node, edges, result, inserted>>

Outcome(op, a, b, raised, before, order, text, g) ==
    [op |-> op, a |-> a, b |-> b, raised |-> raised, before |-> before,
     order |-> order, text |-> text, g |-> g]

\* What a call without a value reports: its name, arguments, whether it raised.
Called(op, a, b, raised, before) ==
    Outcome(op, a, b, raised, before, <<>>, "", EmptyGraph)

\* The record of insertion orders after a call that took g to h: what left a
\* set leaves its record, what joined it goes to the end.
RECURSIVE AppendSet(_, _)
AppendSet(s, S) ==
    IF S = {} THEN s
    ELSE LET x == CHOOSE y \in S : TRUE IN AppendSet(Append(s, x), S \ {x})

Track(ins, h) ==
    [k \in Keys(h) |->
        LET old == IF k \in DOMAIN ins THEN ins[k] ELSE <<>>
            kept == SelectSeq(old, LAMBDA x : x \in h.succ[k])
        IN  AppendSet(kept, h.succ[k] \ Range(kept))]

RECURSIVE TrackInit(_, _, _)
TrackInit(ins, g, initial_vertexes) ==
    IF initial_vertexes = <<>> THEN ins
    ELSE LET h == InitFrom(g, <<Head(initial_vertexes)>>)
         IN  TrackInit(Track(ins, h), h, Tail(initial_vertexes))

\* The edge specifications DAG.__init__ accepts, and the lists of them tried.
EdgeSpecs == {<<v>> : v \in Vertices} \cup {<<u, v>> : u, v \in Vertices}

InitialLists == UNION {[1..n -> EdgeSpecs] : n \in 0..MaxInit}

NoSubgraph ==
    /\ pc = "idle"
    /\ UNCHANGED <<pc, vertices_to_visit, next_node, edges>>

\* DAG(initial_vertexes)
Init ==
    /\ \E initial_vertexes \in InitialLists :
         /\ graph = NewDAG(initial_vertexes)
         /\ inserted = TrackInit(<<>>, EmptyGraph, initial_vertexes)
    /\ pc = "idle"
    /\ vertices_to_visit = <<>>
    /\ next_node = 0
    /\ edges = EmptyGraph
    /\ result = Called("init", 0, 0, FALSE, EmptyGraph)

\* dag.add_vertex(v)
AddVertex(v) ==
    /\ NoSubgraph
    /\ graph' = add_vertex(graph, v)
    /\ result' = Called("add_vertex", v, 0, FALSE, graph)
    /\ inserted' = Track(inserted, graph')

\* dag.add_edge(u, v)
AddEdge(u, v) ==
    /\ NoSubgraph
    /\ NumEdges(add_edge(graph, u, v)) <= MaxEdges
    /\ graph' = add_edge(graph, u, v)
    /\ result' = Called("add_edge", u, v, FALSE, graph)
    /\ inserted' = Track(inserted, graph')

\* del dag[key]
DelVertex(key) ==
    /\ NoSubgraph
    /\ graph' = DelItem(graph, key).g
    /\ result' = Called("delitem", key, 0, DelItem(graph, key).raised, graph)
    /\ inserted' = Track(inserted, graph')

\* list(dag.static_order())
StaticOrder ==
    /\ NoSubgraph
    /\ \E r \in static_order(graph) :
        result' = Outcome("static_order", 0, 0, r.raised, graph, r.order, "",
                          EmptyGraph)
    /\ UNCHANGED <<graph, inserted>>

\* str(dag)
Render ==
    /\ NoSubgraph
    /\ \E text \in Str(graph) :
        result' = Outcome("str", 0, 0, FALSE, graph, <<>>, text, EmptyGraph)
    /\ UNCHANGED <<graph, inserted>>

\* The list comprehension keeping only the edge to the first child.
ExtendEdges_FirstOnly(g, parent, child_nodes) ==
    IF child_nodes = <<>> THEN g
    ELSE add_edge(g, parent, Head(child_nodes))

\* The list comprehension and DAG(edges) of DAG.subgraph: the edges
\* (parent, n) for n in child_nodes join the edge list in order.
RECURSIVE ExtendEdges(_, _, _)
ExtendEdges(g, parent, child_nodes) ==
    IF child_nodes = <<>> THEN g
    ELSE ExtendEdges(add_edge(g, parent, Head(child_nodes)), parent,
                     Tail(child_nodes))

\* dag.subgraph(node), up to the loop: an absent node returns at once.
SubgraphCall(node) ==
    /\ pc = "idle"
    /\ UNCHANGED <<graph, inserted, next_node>>
    /\ IF ~Contains(graph, node)
       THEN /\ result' = Outcome("subgraph", node, 0, FALSE, graph, <<>>, "",
                                 NewDAG(<< <<node>> >>))
            /\ UNCHANGED <<pc, vertices_to_visit, edges>>
       ELSE /\ pc' = "while"
            /\ vertices_to_visit' = <<node>>
            /\ edges' = NewDAG(<< <<node>> >>)
            /\ result' = Called("subgraph_loop", node, 0, FALSE, graph)

\* The call is over: back to the caller, the locals gone.
SubgraphLeave ==
    /\ pc' = "idle"
    /\ vertices_to_visit' = <<>>
    /\ next_node' = 0
    /\ edges' = EmptyGraph
    /\ UNCHANGED <<graph, inserted>>

\* The loop's test and the first two lines of its body:
\* next_node = vertices_to_visit.pop(0); child_nodes = self[next_node],
\* which raises KeyError for a vertex that is no key.
SubgraphPop ==
    /\ pc = "while"
    /\ vertices_to_visit # <<>>
    /\ IF ~Contains(graph, Head(vertices_to_visit))
       THEN /\ SubgraphLeave
            /\ result' = Called("subgraph", result.a, 0, TRUE, result.before)
       ELSE /\ pc' = "extend"
            /\ next_node' = Head(vertices_to_visit)
            /\ vertices_to_visit' = Tail(vertices_to_visit)
            /\ UNCHANGED <<graph, inserted, edges, result>>

\* The rest of the body: the worklist and the edge list are extended by the
\* children, both in the order in which child_nodes iterates.  The model
\* follows a worklist up to MaxVisit entries: a call whose worklist would
\* grow past that stays in its loop and is followed no further.
SubgraphExtend ==
    /\ pc = "extend"
    /\ Len(vertices_to_visit) + Cardinality(graph.succ[next_node]) <= MaxVisit
    /\ \E child_nodes \in IterOrders(graph, next_node) :
         /\ vertices_to_visit' = vertices_to_visit \o child_nodes
         /\ edges' = ExtendEdges(edges, next_node, child_nodes)
    /\ pc' = "while"
    /\ next_node' = 0
    /\ UNCHANGED <<graph, inserted, result>>

\* return DAG(edges)
SubgraphReturn ==
    /\ pc = "while"
    /\ vertices_to_visit = <<>>
    /\ SubgraphLeave
    /\ result' = Outcome("subgraph", result.a, 0, FALSE, result.before, <<>>, "",
                         edges)

\* dag[key].add(w): __getitem__ returns the set object the dict holds.
ViewAdd(key, w) ==
    /\ NoSubgraph
    /\ IF ~Contains(graph, key)
       THEN /\ result' = Called("view_add", key, w, TRUE, graph)
            /\ UNCHANGED graph
       ELSE /\ graph' = [graph EXCEPT !.succ[key] = @ \cup {w}]
            /\ NumEdges(graph') <= MaxEdges
            /\ result' = Called("view_add", key, w, FALSE, graph)
    /\ inserted' = Track(inserted, graph')

\* dag[key].discard(w)
ViewDiscard(key, w) ==
    /\ NoSubgraph
    /\ IF ~Contains(graph, key)
       THEN /\ result' = Called("view_discard", key, w, TRUE, graph)
            /\ UNCHANGED graph
       ELSE /\ graph' = [graph EXCEPT
                            !.succ[key] = @ \ {w},
                            !.worn = IF w \in graph.succ[key] THEN @ \cup {key}
                                     ELSE @]
            /\ result' = Called("view_discard", key, w, FALSE, graph)
    /\ inserted' = Track(inserted, graph')

Next ==
    \/ \E v \in Vertices : AddVertex(v)
    \/ \E u, v \in Vertices : AddEdge(u, v)
    \/ \E key \in Vertices : DelVertex(key)
    \/ StaticOrder
    \/ Render
    \/ \E node \in Vertices : SubgraphCall(node)
    \/ SubgraphPop
    \/ SubgraphExtend
    \/ SubgraphReturn

\* The calls of the DAG's interface.
Spec == Init /\ [][Next]_vars

\* The same, the loop of subgraph running on while it can: the program is
\* sequential, a call in progress is not left waiting.
SpecLive ==
    /\ Spec
    /\ WF_vars(SubgraphPop)
    /\ WF_vars(SubgraphExtend)
    /\ WF_vars(SubgraphReturn)

NextAlias ==
    \/ \E v \in Vertices : AddVertex(v)
    \/ \E u, v \in Vertices : AddEdge(u, v)
    \/ \E key \in Vertices : DelVertex(key)
    \/ \E key, w \in Vertices : ViewAdd(key, w)
    \/ \E key, w \in Vertices : ViewDiscard(key, w)

\* The calls that change the graph, and a caller who changes the sets that
\* __getitem__ hands out.
SpecAlias == Init /\ [][NextAlias]_vars

----------------------------------------------------------------------------
\* Notions the properties are stated with.

Successors(g, v) == IF v \in Keys(g) THEN g.succ[v] ELSE {}

RECURSIVE Closure(_, _)
Closure(g, S) ==
    LET T == S \cup UNION {Successors(g, v) : v \in S}
    IN  IF T = S THEN S ELSE Closure(g, T)

\* The vertices reachable from v over one edge or more.
Descendants(g, v) == Closure(g, Successors(g, v))

\* v and the vertices reachable from it.
Reachable(g, v) == Closure(g, {v})

IsCyclic(g) == \E v \in Keys(g) : v \in Descendants(g, v)

\* Every vertex of a successor set is a key.
NoDangling(g) == \A u \in Keys(g) : g.succ[u] \subseteq Keys(g)

IsPermutationOf(s, S) ==
    /\ Range(s) = S
    /\ Len(s) = Cardinality(S)

----------------------------------------------------------------------------
\* C1: for an acyclic graph, static_order() delivers a permutation of the
\* vertex set in which, for every edge (u, v), u comes strictly before v.
C1_SourceBeforeDestination ==
    (result.op = "static_order" /\ ~IsCyclic(graph)) =>
        /\ ~result.raised
        /\ IsPermutationOf(result.order, Keys(graph))
        /\ \A u \in Keys(graph) : \A v \in graph.succ[u] :
              IndexOf(result.order, u) < IndexOf(result.order, v)

\* C2: static_order() raises CycleError exactly when the graph has a cycle
\* (a self-loop included), and then it has yielded no vertex at all.
C2_CycleDetection ==
    result.op = "static_order" =>
        /\ result.raised <=> IsCyclic(graph)
        /\ result.raised => result.order = <<>>

\* A cyclic graph with a vertex that has nothing before it in graphlib's
\* reading (which a sorter without the check would yield), and the error.
C2_Witness ==
    /\ result.op = "static_order"
    /\ result.raised
    /\ \E v \in Keys(graph) : graph.succ[v] = {}
    /\ \E v \in Keys(graph) : v \in graph.succ[v]

\* C3: after del dag[x] of a present x, x is no key, x is in no remaining
\* successor set, and every other vertex that was present is still present,
\* those reachable only through x included.
C3_NonCascadingRemoval ==
    (result.op = "delitem" /\ Contains(result.before, result.a)) =>
        /\ ~Contains(graph, result.a)
        /\ \A u \in Keys(graph) : result.a \notin graph.succ[u]
        /\ Keys(result.before) \ {result.a} \subseteq Keys(graph)

\* C4: del dag[x] of a present x never raises, whatever the shape of the
\* graph, and removes exactly x and what was reachable from x, leaving no
\* successor set with a removed vertex; KeyError only for an absent x.
C4_CascadingDeleteTotal ==
    result.op = "delitem" =>
        /\ result.raised <=> ~Contains(result.before, result.a)
        /\ Contains(result.before, result.a) =>
              /\ Keys(graph) = Keys(result.before)
                                  \ Reachable(result.before, result.a)
              /\ NoDangling(graph)

\* C5: changing the set that dag[v] returned changes nothing in the graph,
\* and every successor is still a key.
C5_ReturnedSetIsDetached ==
    result.op \in {"view_add", "view_discard"} =>
        /\ graph = result.before
        /\ NoDangling(graph)

\* C8: in every state the calls of the interface reach, a KeyError out of
\* del included, every vertex of a successor set is a key; and after
\* add_edge(u, v) both u and v are keys and v is a successor of u.
C8_EdgesPointToKeys ==
    /\ NoDangling(graph)
    /\ result.op = "add_edge" =>
          /\ Contains(graph, result.a)
          /\ Contains(graph, result.b)
          /\ result.b \in graph.succ[result.a]

\* A del of a present vertex that ended with KeyError part-way and left
\* edges behind.
C8_Witness ==
    /\ result.op = "delitem"
    /\ result.raised
    /\ Contains(result.before, result.a)
    /\ NumEdges(graph) > 0

\* C9: add_vertex(v) of a present v, and add_edge(u, v) of a present edge,
\* leave the graph as it was: the keys, their order and every successor set.
C9_IdempotentInsertion ==
    /\ (result.op = "add_vertex" /\ Contains(result.before, result.a)) =>
          graph = result.before
    /\ (result.op = "add_edge" /\ Contains(result.before, result.a)
          /\ result.b \in Successors(result.before, result.a)) =>
          graph = result.before

\* add_vertex of a present vertex that has successors.
C9_Witness ==
    /\ result.op = "add_vertex"
    /\ Contains(result.before, result.a)
    /\ result.before.succ[result.a] # {}
    /\ Len(graph.order) > 1 /\ graph.order[Len(graph.order)] # result.a

\* C6: every call of subgraph comes back, also when a cycle or a self-loop
\* can be reached from the root: the worklist gets empty and the call returns.
C6_SubgraphTerminates == (pc # "idle") ~> (pc = "idle")

\* C7: on an acyclic graph G, subgraph(root) returns a graph whose vertices
\* are root and what is reachable from root in G (root alone when it is no
\* vertex of G), each with the successor set it has in G, and G is as it was.
C7_SubgraphOfAcyclic ==
    (result.op = "subgraph" /\ ~IsCyclic(graph)) =>
        /\ ~result.raised
        /\ Keys(result.g) = {result.a} \cup Descendants(graph, result.a)
        /\ \A v \in Keys(result.g) : result.g.succ[v] = Successors(graph, v)
        /\ ~Contains(graph, result.a) =>
              /\ GraphLen(result.g) = 1
              /\ result.g.order = <<result.a>>
        /\ graph = result.before

\* A subgraph of an acyclic graph whose root reaches one vertex both over
\* one edge and over two.
C7_Witness ==
    /\ result.op = "subgraph"
    /\ ~IsCyclic(graph)
    /\ \E v \in Successors(graph, result.a) :
          Successors(graph, v) \cap Successors(graph, result.a) # {}
    /\ GraphLen(result.g) = 3

\* The text of a graph whose lines list the successors as f gives them.
RECURSIVE CommaList(_, _)
CommaList(p, n) ==
    IF n = 0 THEN ""
    ELSE IF n = 1 THEN ToString(p[1])
    ELSE CommaList(p, n - 1) \o ", " \o ToString(p[n])

RECURSIVE TextOf(_, _, _)
TextOf(g, f, n) ==
    IF n = 0 THEN ""
    ELSE TextOf(g, f, n - 1) \o ToString(g.order[n]) \o " -> ["
            \o CommaList(f[g.order[n]], Len(f[g.order[n]])) \o "]\n"

\* The texts of a graph whose lines list every successor once, in any order.
RECURSIVE TextsOf(_, _)
TextsOf(g, n) ==
    IF n = 0 THEN {""}
    ELSE {t \o ToString(g.order[n]) \o " -> [" \o CommaList(p, Len(p)) \o "]\n"
            : t \in TextsOf(g, n - 1), p \in Perms(g.succ[g.order[n]])}

\* C10 as stated: str(dag) has one line per vertex, in first-insertion
\* order, each listing the vertex's successors in the order in which add_edge
\* put them into its set; the empty graph gives the empty string.
C10_InsertionOrderLines ==
    result.op = "str" => result.text = TextOf(graph, inserted, GraphLen(graph))

\* C10 as amended: str(dag) has one line per vertex, in first-insertion
\* order, each listing every successor of the vertex once, in the order in
\* which the set happens to iterate, which need not be the order of the
\* add_edge calls; the empty graph gives the empty string.
C10_SetOrderLines ==
    result.op = "str" =>
        /\ result.text \in TextsOf(graph, GraphLen(graph))
        /\ graph = EmptyGraph => result.text = ""

\* A rendering of a graph whose keys are not in ascending order and where a
\* line lists two successors in another order than they were added.
C10_Witness ==
    /\ result.op = "str"
    /\ GraphLen(graph) >= 2
    /\ graph.order[1] > graph.order[2]
    /\ \E k \in Keys(graph) : Len(inserted[k]) >= 2
    /\ result.text # TextOf(graph, inserted, GraphLen(graph))

====
